---- MODULE Spec2Model ----
(***************************************************************************)
(* Model of web/apps/accounts/src/services/passkey.ts: the passkey         *)
(* management calls, the registration ceremony, the two authentication     *)
(* ceremony requests, the redirect allow-list and the binary encoding of   *)
(* ceremony fields.                                                        *)
(***************************************************************************)
EXTENDS Integers, Sequences, FiniteSets, TLC

\* ------------------------------------------------------------------------
\* Bounds of the model
\* ------------------------------------------------------------------------

\* longest byte sequence given to the encoder
MaxBytesLen == 3

\* number of registerPasskey invocations in one run
MaxAttempts == 2

\* number of management / authentication calls in one run
MaxCalls == 2

\* number of invocations of either kind in one run of the whole module
MaxOps == 2

\* ------------------------------------------------------------------------
\* Binary encoder: URL-safe base64 without padding
\* ------------------------------------------------------------------------

\* byte values the encoder is exercised with (0x00, 0x01, 'a', 0xFB, 0xFF)
SampleBytes == {0, 1, 97, 251, 255}

B64Alphabet ==
    << "A","B","C","D","E","F","G","H","I","J","K","L","M",
       "N","O","P","Q","R","S","T","U","V","W","X","Y","Z",
       "a","b","c","d","e","f","g","h","i","j","k","l","m",
       "n","o","p","q","r","s","t","u","v","w","x","y","z",
       "0","1","2","3","4","5","6","7","8","9","-","_" >>

B64Char(v) == B64Alphabet[v + 1]

\* what decoding yields for text that is no valid encoding (it throws)
MalformedEncoding == << -1 >>

RECURSIVE toB64URLSafeNoPadding(_)
toB64URLSafeNoPadding(b) ==
    IF Len(b) = 0 THEN << >>
    ELSE IF Len(b) = 1 THEN
        << B64Char(b[1] \div 4), B64Char((b[1] % 4) * 16) >>
    ELSE IF Len(b) = 2 THEN
        << B64Char(b[1] \div 4),
           B64Char((b[1] % 4) * 16 + (b[2] \div 16)),
           B64Char((b[2] % 16) * 4) >>
    ELSE
        << B64Char(b[1] \div 4),
           B64Char((b[1] % 4) * 16 + (b[2] \div 16)),
           B64Char((b[2] % 16) * 4 + (b[3] \div 64)),
           B64Char(b[3] % 64) >>
        \o toB64URLSafeNoPadding(SubSeq(b, 4, Len(b)))

B64Value(ch) == CHOOSE v \in 0..63 : B64Alphabet[v + 1] = ch

IsB64Char(ch) == \E v \in 0..63 : B64Alphabet[v + 1] = ch

RECURSIVE B64DecodeValues(_)
B64DecodeValues(v) ==
    IF Len(v) = 0 THEN << >>
    ELSE IF Len(v) = 2 THEN
        << v[1] * 4 + (v[2] \div 16) >>
    ELSE IF Len(v) = 3 THEN
        << v[1] * 4 + (v[2] \div 16),
           (v[2] % 16) * 16 + (v[3] \div 4) >>
    ELSE
        << v[1] * 4 + (v[2] \div 16),
           (v[2] % 16) * 16 + (v[3] \div 4),
           (v[3] % 4) * 64 + v[4] >>
        \o B64DecodeValues(SubSeq(v, 5, Len(v)))

\* bits left over after the last whole byte must be zero
B64TrailingBitsZero(v) ==
    CASE Len(v) % 4 = 2 -> v[Len(v)] % 16 = 0
      [] Len(v) % 4 = 3 -> v[Len(v)] % 4 = 0
      [] OTHER -> TRUE

from_base64(text) ==
    IF \E i \in 1..Len(text) : ~IsB64Char(text[i]) THEN MalformedEncoding
    ELSE IF Len(text) % 4 = 1 THEN MalformedEncoding
    ELSE LET v == [i \in 1..Len(text) |-> B64Value(text[i])]
         IN  IF B64TrailingBitsZero(v) THEN B64DecodeValues(v)
             ELSE MalformedEncoding

\* registerPasskey: the decoding applied to the incoming challenge and
\* user handle
DecodeOption(text) == from_base64(text)

\* the standard padded encoding in place of the unpadded one
EncodeFieldPadded(bytes) ==
    toB64URLSafeNoPadding(bytes)
    \o [i \in 1..((3 - (Len(bytes) % 3)) % 3) |-> "="]

\* finishPasskeyRegistration / finishPasskeyAuthentication: the encoding
\* applied to each outgoing credential field
EncodeField(bytes) == toB64URLSafeNoPadding(bytes)

RECURSIVE SeqsUpTo(_, _)
SeqsUpTo(S, n) ==
    IF n = 0 THEN { << >> }
    ELSE LET shorter == SeqsUpTo(S, n - 1)
         IN  shorter \cup { Append(s, x) : s \in shorter, x \in S }

ByteSeqs == SeqsUpTo(SampleBytes, MaxBytesLen)

\* ------------------------------------------------------------------------
\* Redirect allow-list
\* ------------------------------------------------------------------------

EndsWith(s, suffix) ==
    /\ Len(suffix) <= Len(s)
    /\ SubSeq(s, Len(s) - Len(suffix) + 1, Len(s)) = suffix

StrLocalhost == << "l","o","c","a","l","h","o","s","t" >>
StrDotEnteIo == << ".","e","n","t","e",".","i","o" >>
StrDotEnteSh == << ".","e","n","t","e",".","s","h" >>

Hostnames ==
    { << "x" >> \o StrDotEnteIo,                              \* x.ente.io
      << "e","n","t","e",".","i","o" >>,                      \* ente.io
      << "x" >> \o StrDotEnteSh,                              \* x.ente.sh
      << "e","v","i","l",".","e","x","a","m","p","l","e",".","c","o","m" >>,
      << "x" >> \o StrDotEnteIo \o << ".","e","v","i","l",".","c","o","m" >>,
      StrLocalhost,                                           \* localhost
      << "a","p","p","." >> \o StrLocalhost,                  \* app.localhost
      << "o","p","e","n" >> }                                 \* open

\* "" is the scheme's default port, which a URL leaves out of its host
Ports == { << >>, << "3","0","0","0" >>, << "8","4","4","3" >> }

Protocols == { "https:", "http:", "ente:", "enteauth:", "ftp:" }

URLs == [protocol : Protocols, hostname : Hostnames, port : Ports]

\* URL.host: the hostname, followed by ":" and the port when there is one
URLHost(url) ==
    IF url.port = << >> THEN url.hostname
    ELSE url.hostname \o << ":" >> \o url.port

isWhitelistedRedirect(url, dev) ==
    \/ (dev /\ EndsWith(url.hostname, StrLocalhost))
    \/ EndsWith(URLHost(url), StrDotEnteIo)
    \/ EndsWith(URLHost(url), StrDotEnteSh)
    \/ url.protocol = "ente:"
    \/ url.protocol = "enteauth:"

\* ------------------------------------------------------------------------
\* State
\* ------------------------------------------------------------------------

VARIABLES
    token,          \* getToken(): the stored accounts token, or NoToken
    clientPackage,  \* localStorage "clientPackage", or NoPackage
    pc,             \* position of each registerPasskey invocation
    name,           \* registerPasskey: parameter name
    response,       \* registerPasskey: const response
    options,        \* registerPasskey: response.options after decoding
    credential,     \* registerPasskey: const credential
    encoded,        \* finishPasskeyRegistration: the two *B64 constants
    err,            \* the error registerPasskey rejects with
    brokerOutcome,  \* how navigator.credentials.create() settled
    trace,          \* external calls made by the invocation, in order
    beginReq,       \* requests in flight to /passkeys/registration/begin
    brokerCall,     \* options handed to navigator.credentials.create()
    finishReq,      \* requests in flight to /passkeys/registration/finish
    attempts,       \* registerPasskey invocations so far
    nextSession,    \* next session identifier the server issues
    nextCred,       \* next credential identifier the broker creates
    finishedSessions, \* session identifiers the finish endpoint received
    passkeys,       \* the server's passkey collection
    callOp,         \* the management / authentication call in progress
    callArgs,       \* its arguments
    callState,      \* "idle", "pending", "returned" or "threw"
    callReq,        \* the requests it sent
    callResult,     \* the value it returned
    callErr,        \* the error it threw
    callFault,      \* the failure the transport raised
    log,            \* log.error entries
    callsMade,      \* management / authentication calls so far
    redirectURL,    \* isWhitelistedRedirect: argument
    isDevBuild,     \* @/next/env isDevBuild
    redirectResult, \* isWhitelistedRedirect: result
    b64Input,       \* bytes given to the encoder
    b64Text,        \* their encoding
    b64Output,      \* the decoding of b64Text
    b64Stage        \* "input", "encoded" or "decoded"

regVars ==
    << pc, name, response, options, credential, encoded, err, brokerOutcome,
       trace, beginReq, brokerCall, finishReq, attempts, nextSession,
       nextCred, finishedSessions >>

callVars ==
    << passkeys, callOp, callArgs, callState, callReq, callResult, callErr,
       callFault, log, callsMade >>

storageVars == << token, clientPackage >>

redirectVars == << redirectURL, isDevBuild, redirectResult >>

b64Vars == << b64Input, b64Text, b64Output, b64Stage >>

vars == << storageVars, regVars, callVars, redirectVars, b64Vars >>

\* ------------------------------------------------------------------------
\* Values
\* ------------------------------------------------------------------------

Cer == {1, 2}

NoToken == "undefined"
Tokens == {"tokA", "tokB"}

NoPackage == "undefined"
Packages == {"io.ente.photos"}

Names == {"yubikey", "a&b=c"}

NoError == "none"
MissingTokenError == "Missing accounts token"
EnsureError == "Required value was not found"
MalformedEncodingError == "invalid input"
FetchErrors == {"NetworkError", "HTTPStatusError"}
TransportErrors == {"NetworkError", "ServerError"}
BrokerFailures == {"UserCancelled", "Unsupported", "OptionsRejected"}

\* what navigator.credentials.create() can settle with
BrokerPending == "pending"
BrokerNull == "null"
BrokerCredential == "credential"

\* challenge and user handle as the begin response carries them: both
\* well-formed, or one of them not
WireOptions ==
    { [challenge |-> << "_","_","s" >>, userID |-> << "A","Q" >>],
      [challenge |-> << "A","=" >>,     userID |-> << "A","Q" >>],
      [challenge |-> << "_","_","s" >>, userID |-> << "A","B" >>] }

\* attestation object and client data of the credentials the broker creates
BrokerPayloads ==
    { [attestationObject |-> << 0 >>, clientDataJSON |-> << 255, 251 >>],
      [attestationObject |-> << 97, 1, 255 >>, clientDataJSON |-> << >>] }

NoResponse == [sessionID |-> 0, challenge |-> << >>, userID |-> << >>]
NoOptions == [challenge |-> << >>, userID |-> << >>]
NoCredential ==
    [id |-> 0, type |-> "none", attestationObject |-> << >>,
     clientDataJSON |-> << >>]
NoEncoded == [attestationObject |-> << >>, clientDataJSON |-> << >>]

\* ------------------------------------------------------------------------
\* Registration ceremony
\* ------------------------------------------------------------------------

\* ensure(v) throws for null and for undefined
ensureThrows(v) == v = "null" \/ v = "undefined"

\* the check for a missing token left out
TokenMissingIgnored(tok) == FALSE

\* accountsAuthenticatedRequestHeaders: if (!token) throw
TokenMissing(tok) == tok = NoToken

\* accountsAuthenticatedRequestHeaders, when it does not throw
accountsAuthenticatedRequestHeaders ==
    [XAuthToken |-> token, XClientPackage |-> clientPackage]

\* a rejection of the broker swallowed, as if it had resolved with null
EnsureCredentialMasked(outcome) ==
    IF outcome = BrokerCredential THEN NoError ELSE EnsureError

\* ensure(await navigator.credentials.create(options)): the error thrown
\* for an outcome of the broker call, NoError when a credential results
EnsureCredential(outcome) ==
    IF outcome \in BrokerFailures THEN outcome
    ELSE IF ensureThrows(outcome) THEN EnsureError
    ELSE NoError

\* the begin response kept in one place shared by all invocations
FinishArgsShared(c) ==
    [friendlyName |-> name[c],
     credential   |-> credential[c],
     sessionID    |-> nextSession - 1]

\* the arguments registerPasskey hands to finishPasskeyRegistration
FinishArgs(c) ==
    [friendlyName |-> name[c],
     credential   |-> credential[c],
     sessionID    |-> response[c].sessionID]

\* the request finishPasskeyRegistration posts
FinishRegistrationRequest(args, b64, tok) ==
    [body   |-> [id    |-> args.credential.id,
                 rawId |-> args.credential.id,
                 type  |-> args.credential.type,
                 response |->
                    [attestationObject |-> b64.attestationObject,
                     clientDataJSON    |-> b64.clientDataJSON]],
     params  |-> [friendlyName |-> args.friendlyName,
                  sessionID    |-> args.sessionID],
     headers |-> [XAuthToken |-> tok]]

Fail(c, e) ==
    /\ pc' = [pc EXCEPT ![c] = "Failed"]
    /\ err' = [err EXCEPT ![c] = e]

\* registerPasskey up to the fetch of getPasskeyRegistrationOptions
RegisterPasskey(c, n) ==
    /\ pc[c] = "Idle"
    /\ attempts < MaxAttempts
    /\ attempts' = attempts + 1
    /\ name' = [name EXCEPT ![c] = n]
    /\ IF TokenMissing(token)
       THEN /\ Fail(c, MissingTokenError)
            /\ UNCHANGED << beginReq, trace >>
       ELSE /\ pc' = [pc EXCEPT ![c] = "BeginPending"]
            /\ beginReq' = [beginReq EXCEPT
                  ![c] = Append(@, [headers |->
                                      accountsAuthenticatedRequestHeaders])]
            /\ trace' = [trace EXCEPT ![c] = Append(@, "begin")]
            /\ UNCHANGED err
    /\ UNCHANGED << response, options, credential, encoded, brokerOutcome,
                    brokerCall, finishReq, nextSession, nextCred,
                    finishedSessions >>
    /\ UNCHANGED << storageVars, callVars, redirectVars, b64Vars >>

\* res.ok left unchecked: the ceremony goes on without options
BeginFailsUnchecked(c, e) ==
    /\ pc[c] = "BeginPending"
    /\ pc' = [pc EXCEPT ![c] = "OptionsFetched"]
    /\ beginReq' = [beginReq EXCEPT ![c] = << >>]
    /\ UNCHANGED << name, response, options, credential, encoded, err,
                    brokerOutcome, trace, brokerCall, finishReq,
                    attempts, nextSession, nextCred, finishedSessions >>
    /\ UNCHANGED << storageVars, callVars, redirectVars, b64Vars >>

\* getPasskeyRegistrationOptions: the fetch fails, or answers not ok
BeginFails(c, e) ==
    /\ pc[c] = "BeginPending"
    /\ Fail(c, e)
    /\ beginReq' = [beginReq EXCEPT ![c] = << >>]
    /\ UNCHANGED << name, response, options, credential, encoded,
                    brokerOutcome, trace, brokerCall, finishReq,
                    attempts, nextSession, nextCred, finishedSessions >>
    /\ UNCHANGED << storageVars, callVars, redirectVars, b64Vars >>

\* getPasskeyRegistrationOptions: the response is ok and its JSON returned
BeginSucceeds(c, challenge, userID) ==
    /\ pc[c] = "BeginPending"
    /\ pc' = [pc EXCEPT ![c] = "OptionsFetched"]
    /\ response' = [response EXCEPT
          ![c] = [sessionID |-> nextSession, challenge |-> challenge,
                  userID |-> userID]]
    /\ nextSession' = nextSession + 1
    /\ beginReq' = [beginReq EXCEPT ![c] = << >>]
    /\ UNCHANGED << name, options, credential, encoded, err, brokerOutcome,
                    trace, brokerCall, finishReq, attempts,
                    nextCred, finishedSessions >>
    /\ UNCHANGED << storageVars, callVars, redirectVars, b64Vars >>

\* registerPasskey: decode the two options, then call the broker
CreateCredential(c) ==
    /\ pc[c] = "OptionsFetched"
    /\ LET challenge == DecodeOption(response[c].challenge)
           userID    == DecodeOption(response[c].userID)
       IN  IF challenge = MalformedEncoding \/ userID = MalformedEncoding
           THEN /\ Fail(c, MalformedEncodingError)
                /\ UNCHANGED << options, brokerCall, trace >>
           ELSE /\ options' = [options EXCEPT
                      ![c] = [challenge |-> challenge, userID |-> userID]]
                /\ brokerCall' = [brokerCall EXCEPT
                      ![c] = Append(@, [challenge |-> challenge,
                                        userID |-> userID])]
                /\ trace' = [trace EXCEPT ![c] = Append(@, "broker")]
                /\ pc' = [pc EXCEPT ![c] = "BrokerPending"]
                /\ UNCHANGED err
    /\ UNCHANGED << name, response, credential, encoded, brokerOutcome,
                    beginReq, finishReq, attempts, nextSession, nextCred,
                    finishedSessions >>
    /\ UNCHANGED << storageVars, callVars, redirectVars, b64Vars >>

\* navigator.credentials.create() rejects, or resolves with null
BrokerFails(c, outcome) ==
    /\ pc[c] = "BrokerPending"
    /\ brokerOutcome' = [brokerOutcome EXCEPT ![c] = outcome]
    /\ Fail(c, EnsureCredential(outcome))
    /\ UNCHANGED << name, response, options, credential, encoded, trace,
                    beginReq, brokerCall, finishReq, attempts, nextSession,
                    nextCred, finishedSessions >>
    /\ UNCHANGED << storageVars, callVars, redirectVars, b64Vars >>

\* navigator.credentials.create() resolves with a credential
BrokerSucceeds(c, att, cdj) ==
    /\ pc[c] = "BrokerPending"
    /\ brokerOutcome' = [brokerOutcome EXCEPT ![c] = BrokerCredential]
    /\ credential' = [credential EXCEPT
          ![c] = [id |-> nextCred, type |-> "public-key",
                  attestationObject |-> att, clientDataJSON |-> cdj]]
    /\ nextCred' = nextCred + 1
    /\ pc' = [pc EXCEPT ![c] = "CredentialCreated"]
    /\ UNCHANGED << name, response, options, encoded, err, trace, beginReq,
                    brokerCall, finishReq, attempts, nextSession,
                    finishedSessions >>
    /\ UNCHANGED << storageVars, callVars, redirectVars, b64Vars >>

\* finishPasskeyRegistration: the two awaited encodings
EncodeCredential(c) ==
    /\ pc[c] = "CredentialCreated"
    /\ encoded' = [encoded EXCEPT
          ![c] = [attestationObject |->
                     EncodeField(FinishArgs(c).credential.attestationObject),
                  clientDataJSON |->
                     EncodeField(FinishArgs(c).credential.clientDataJSON)]]
    /\ pc' = [pc EXCEPT ![c] = "Encoded"]
    /\ UNCHANGED << name, response, options, credential, err, brokerOutcome,
                    trace, beginReq, brokerCall, finishReq, attempts,
                    nextSession, nextCred, finishedSessions >>
    /\ UNCHANGED << storageVars, callVars, redirectVars, b64Vars >>

\* finishPasskeyRegistration: ensure(getToken()), then the post
SubmitFinish(c) ==
    /\ pc[c] = "Encoded"
    /\ IF ensureThrows(token)
       THEN /\ Fail(c, EnsureError)
            /\ UNCHANGED << finishReq, trace, finishedSessions >>
       ELSE /\ LET req == FinishRegistrationRequest(
                              FinishArgs(c), encoded[c], token)
               IN  /\ finishReq' = [finishReq EXCEPT ![c] = Append(@, req)]
                   /\ finishedSessions' =
                          Append(finishedSessions, req.params.sessionID)
            /\ trace' = [trace EXCEPT ![c] = Append(@, "finish")]
            /\ pc' = [pc EXCEPT ![c] = "Submitted"]
            /\ UNCHANGED err
    /\ UNCHANGED << name, response, options, credential, encoded,
                    brokerOutcome, beginReq, brokerCall, attempts,
                    nextSession, nextCred >>
    /\ UNCHANGED << storageVars, callVars, redirectVars, b64Vars >>

\* a failed finish request sent once more
FinishFailsRetry(c, e) ==
    /\ pc[c] = "Submitted"
    /\ Len(trace[c]) < 4
    /\ trace' = [trace EXCEPT ![c] = Append(@, "finish")]
    /\ finishedSessions' =
          Append(finishedSessions, finishReq[c][1].params.sessionID)
    /\ UNCHANGED << pc, name, response, options, credential, encoded, err,
                    brokerOutcome, beginReq, brokerCall, finishReq,
                    attempts, nextSession, nextCred >>
    /\ UNCHANGED << storageVars, callVars, redirectVars, b64Vars >>

\* HTTPService.post of the finish request fails
FinishFails(c, e) ==
    /\ pc[c] = "Submitted"
    /\ Fail(c, e)
    /\ finishReq' = [finishReq EXCEPT ![c] = << >>]
    /\ UNCHANGED << name, response, options, credential, encoded,
                    brokerOutcome, trace, beginReq, brokerCall,
                    attempts, nextSession, nextCred, finishedSessions >>
    /\ UNCHANGED << storageVars, callVars, redirectVars, b64Vars >>

\* HTTPService.post of the finish request succeeds
FinishSucceeds(c) ==
    /\ pc[c] = "Submitted"
    /\ pc' = [pc EXCEPT ![c] = "Done"]
    /\ finishReq' = [finishReq EXCEPT ![c] = << >>]
    /\ UNCHANGED << name, response, options, credential, encoded, err,
                    brokerOutcome, trace, beginReq, brokerCall,
                    attempts, nextSession, nextCred, finishedSessions >>
    /\ UNCHANGED << storageVars, callVars, redirectVars, b64Vars >>

\* the invocation has settled; its locals are gone and the caller may
\* invoke registerPasskey again
Settle(c) ==
    /\ pc[c] \in {"Done", "Failed"}
    /\ attempts < MaxAttempts
    /\ pc' = [pc EXCEPT ![c] = "Idle"]
    /\ name' = [name EXCEPT ![c] = "none"]
    /\ response' = [response EXCEPT ![c] = NoResponse]
    /\ options' = [options EXCEPT ![c] = NoOptions]
    /\ credential' = [credential EXCEPT ![c] = NoCredential]
    /\ encoded' = [encoded EXCEPT ![c] = NoEncoded]
    /\ err' = [err EXCEPT ![c] = NoError]
    /\ brokerOutcome' = [brokerOutcome EXCEPT ![c] = BrokerPending]
    /\ trace' = [trace EXCEPT ![c] = << >>]
    /\ beginReq' = [beginReq EXCEPT ![c] = << >>]
    /\ brokerCall' = [brokerCall EXCEPT ![c] = << >>]
    /\ finishReq' = [finishReq EXCEPT ![c] = << >>]
    /\ UNCHANGED << attempts, nextSession, nextCred, finishedSessions >>
    /\ UNCHANGED << storageVars, callVars, redirectVars, b64Vars >>

\* the stored token is set, replaced or removed by the rest of the app
SetToken(t) ==
    /\ token # t
    /\ token' = t
    /\ UNCHANGED << clientPackage, regVars, callVars, redirectVars, b64Vars >>

\* ------------------------------------------------------------------------
\* Passkey management and the authentication ceremony requests
\* ------------------------------------------------------------------------

PasskeyIDs == {"pk1", "pk2"}
Absent == "absent"

SessionStrings == {"sess-1", "a&b=c/d?e"}

\* credentials handed to finishPasskeyAuthentication
AuthCredentials ==
    { [id |-> "cred-A", type |-> "public-key",
       authenticatorData |-> << 1, 97 >>, clientDataJSON |-> << 97 >>,
       signature |-> << 255, 251, 0 >>, userHandle |-> << 0 >>],
      [id |-> "cred-B", type |-> "public-key",
       authenticatorData |-> << 0 >>, clientDataJSON |-> << 97, 97 >>,
       signature |-> << 251 >>, userHandle |-> << >>] }

NoArgs ==
    [id |-> "none", name |-> "none", sessionId |-> "none",
     ceremonySessionId |-> "none", credential |-> "none"]

\* the early return for a missing token left out
ReturnsEarlyNever(tok) == FALSE

\* getPasskeys, renamePasskey, deletePasskey: if (!token) return
ReturnsEarly(tok) == tok = NoToken

Undefined == [defined |-> FALSE, data |-> "undefined"]
Defined(d) == [defined |-> TRUE, data |-> d]

GetPasskeysRequest(tok) ==
    [method |-> "GET", path |-> "/passkeys",
     headers |-> [XAuthToken |-> tok]]

RenamePasskeyRequest(id, n, tok) ==
    [method |-> "PATCH", path |-> << "/passkeys", id >>,
     params |-> [friendlyName |-> n],
     headers |-> [XAuthToken |-> tok]]

DeletePasskeyRequest(id, tok) ==
    [method |-> "DELETE", path |-> << "/passkeys", id >>,
     headers |-> [XAuthToken |-> tok]]

BeginAuthenticationRequest(sessionId) ==
    [method |-> "POST", path |-> "/users/two-factor/passkeys/begin",
     data |-> [sessionID |-> sessionId]]

\* the two positional session identifiers taken in the other order
FinishAuthenticationRequestSwapped(cred, sessionId, ceremonySessionId) ==
    [method |-> "POST", path |-> "/users/two-factor/passkeys/finish",
     data |-> [id |-> cred.id, rawId |-> cred.id, type |-> cred.type],
     params |-> [sessionID |-> ceremonySessionId,
                 ceremonySessionID |-> sessionId]]

FinishAuthenticationRequest(cred, sessionId, ceremonySessionId) ==
    [method |-> "POST", path |-> "/users/two-factor/passkeys/finish",
     data |-> [id    |-> cred.id,
               rawId |-> cred.id,
               type  |-> cred.type,
               response |->
                  [authenticatorData |-> EncodeField(cred.authenticatorData),
                   clientDataJSON    |-> EncodeField(cred.clientDataJSON),
                   signature         |-> EncodeField(cred.signature),
                   userHandle        |-> EncodeField(cred.userHandle)]],
     params |-> [sessionID |-> sessionId,
                 ceremonySessionID |-> ceremonySessionId]]

\* the message each catch block logs; getPasskeys has no catch block
LogMessage(op) ==
    CASE op = "renamePasskey" -> "rename passkey failed"
      [] op = "deletePasskey" -> "delete passkey failed"
      [] op = "beginPasskeyAuthentication" ->
            "begin passkey authentication failed"
      [] op = "finishPasskeyAuthentication" ->
            "finish passkey authentication failed"

HasCatchBlock(op) ==
    op \in {"renamePasskey", "deletePasskey", "beginPasskeyAuthentication",
            "finishPasskeyAuthentication"}

\* a catch block that rethrows without logging
CatchLogRethrowSilent(op, e) == [logged |-> << >>, thrown |-> e]

\* catch (e) { log.error(message, e); throw e; }
CatchLogRethrow(op, e) ==
    [logged |-> << [message |-> LogMessage(op), error |-> e] >>,
     thrown |-> e]

\* a call is made: op and args are recorded, and either the request is
\* sent or the call returns undefined at once
StartCall(op, args, sends, req) ==
    /\ callState = "idle"
    /\ callsMade < MaxCalls
    /\ callsMade' = callsMade + 1
    /\ callOp' = op
    /\ callArgs' = args
    /\ IF sends
       THEN /\ callReq' = << req >>
            /\ callState' = "pending"
            /\ callResult' = Undefined
       ELSE /\ callReq' = << >>
            /\ callState' = "returned"
            /\ callResult' = Undefined
    /\ UNCHANGED << passkeys, callErr, callFault, log >>
    /\ UNCHANGED << storageVars, regVars, redirectVars, b64Vars >>

getPasskeys ==
    /\ StartCall("getPasskeys", NoArgs, ~ReturnsEarly(token),
                 GetPasskeysRequest(token))

renamePasskey(id, n) ==
    /\ StartCall("renamePasskey", [NoArgs EXCEPT !.id = id, !.name = n],
                 ~ReturnsEarly(token), RenamePasskeyRequest(id, n, token))

deletePasskey(id) ==
    /\ StartCall("deletePasskey", [NoArgs EXCEPT !.id = id],
                 ~ReturnsEarly(token), DeletePasskeyRequest(id, token))

beginPasskeyAuthentication(sessionId) ==
    /\ StartCall("beginPasskeyAuthentication",
                 [NoArgs EXCEPT !.sessionId = sessionId],
                 TRUE, BeginAuthenticationRequest(sessionId))

finishPasskeyAuthentication(cred, sessionId, ceremonySessionId) ==
    /\ StartCall("finishPasskeyAuthentication",
                 [NoArgs EXCEPT !.credential = cred, !.sessionId = sessionId,
                                !.ceremonySessionId = ceremonySessionId],
                 TRUE,
                 FinishAuthenticationRequest(cred, sessionId,
                                             ceremonySessionId))

\* the server's answer to the request of the call in progress
ServerAnswer(ceremonySessionID) ==
    CASE callOp = "getPasskeys" -> passkeys
      [] callOp = "renamePasskey" -> "renamed"
      [] callOp = "deletePasskey" -> "deleted"
      [] callOp = "beginPasskeyAuthentication" ->
            [ceremonySessionID |-> ceremonySessionID]
      [] callOp = "finishPasskeyAuthentication" -> "verified"

\* the server's passkey collection after it served the request
ServerEffect ==
    CASE callOp = "renamePasskey" ->
            [passkeys EXCEPT ![callArgs.id] = callArgs.name]
      [] callOp = "deletePasskey" ->
            [passkeys EXCEPT ![callArgs.id] = Absent]
      [] OTHER -> passkeys

\* the request succeeds and the call returns the response's data
CallSucceeds(ceremonySessionID) ==
    /\ callState = "pending"
    /\ callOp \in {"renamePasskey", "deletePasskey"}
          => passkeys[callArgs.id] # Absent
    /\ callState' = "returned"
    /\ callResult' = Defined(ServerAnswer(ceremonySessionID))
    /\ passkeys' = ServerEffect
    /\ UNCHANGED << callOp, callArgs, callReq, callErr, callFault, log,
                    callsMade >>
    /\ UNCHANGED << storageVars, regVars, redirectVars, b64Vars >>

\* the request fails; the catch block, where there is one, logs and rethrows
CallFails(e) ==
    /\ callState = "pending"
    /\ callState' = "threw"
    /\ callFault' = e
    /\ IF HasCatchBlock(callOp)
       THEN /\ log' = log \o CatchLogRethrow(callOp, e).logged
            /\ callErr' = CatchLogRethrow(callOp, e).thrown
       ELSE /\ log' = log
            /\ callErr' = e
    /\ UNCHANGED << passkeys, callOp, callArgs, callReq, callResult,
                    callsMade >>
    /\ UNCHANGED << storageVars, regVars, redirectVars, b64Vars >>

\* the call has settled and the caller may make another
CallSettle ==
    /\ callState \in {"returned", "threw"}
    /\ callsMade < MaxCalls
    /\ callState' = "idle"
    /\ callOp' = "none"
    /\ callArgs' = NoArgs
    /\ callReq' = << >>
    /\ callResult' = Undefined
    /\ callErr' = NoError
    /\ callFault' = NoError
    /\ UNCHANGED << passkeys, log, callsMade >>
    /\ UNCHANGED << storageVars, regVars, redirectVars, b64Vars >>

\* ------------------------------------------------------------------------
\* Redirect validator and binary encoder, applied to drawn inputs
\* ------------------------------------------------------------------------

CheckRedirect ==
    /\ redirectResult = "unchecked"
    /\ redirectResult' =
          IF isWhitelistedRedirect(redirectURL, isDevBuild)
          THEN "allowed" ELSE "rejected"
    /\ UNCHANGED << redirectURL, isDevBuild >>
    /\ UNCHANGED << storageVars, regVars, callVars, b64Vars >>

NextRedirectURL(url) ==
    /\ redirectResult # "unchecked"
    /\ redirectURL' = url
    /\ redirectResult' = "unchecked"
    /\ UNCHANGED isDevBuild
    /\ UNCHANGED << storageVars, regVars, callVars, b64Vars >>

EncodeBytes ==
    /\ b64Stage = "input"
    /\ b64Text' = EncodeField(b64Input)
    /\ b64Stage' = "encoded"
    /\ UNCHANGED << b64Input, b64Output >>
    /\ UNCHANGED << storageVars, regVars, callVars, redirectVars >>

DecodeText ==
    /\ b64Stage = "encoded"
    /\ b64Output' = DecodeOption(b64Text)
    /\ b64Stage' = "decoded"
    /\ UNCHANGED << b64Input, b64Text >>
    /\ UNCHANGED << storageVars, regVars, callVars, redirectVars >>

\* ------------------------------------------------------------------------
\* Specifications
\* ------------------------------------------------------------------------

InitStorage ==
    /\ token \in Tokens \cup {NoToken}
    /\ clientPackage \in Packages \cup {NoPackage}

InitReg ==
    /\ pc = [c \in Cer |-> "Idle"]
    /\ name = [c \in Cer |-> "none"]
    /\ response = [c \in Cer |-> NoResponse]
    /\ options = [c \in Cer |-> NoOptions]
    /\ credential = [c \in Cer |-> NoCredential]
    /\ encoded = [c \in Cer |-> NoEncoded]
    /\ err = [c \in Cer |-> NoError]
    /\ brokerOutcome = [c \in Cer |-> BrokerPending]
    /\ trace = [c \in Cer |-> << >>]
    /\ beginReq = [c \in Cer |-> << >>]
    /\ brokerCall = [c \in Cer |-> << >>]
    /\ finishReq = [c \in Cer |-> << >>]
    /\ attempts = 0
    /\ nextSession = 1
    /\ nextCred = 1
    /\ finishedSessions = << >>

InitCall ==
    /\ passkeys = [id \in PasskeyIDs |-> "yubikey"]
    /\ callOp = "none"
    /\ callArgs = NoArgs
    /\ callState = "idle"
    /\ callReq = << >>
    /\ callResult = Undefined
    /\ callErr = NoError
    /\ callFault = NoError
    /\ log = << >>
    /\ callsMade = 0

InitRedirectIdle ==
    /\ redirectURL = [protocol |-> "https:", hostname |-> StrLocalhost,
                      port |-> << >>]
    /\ isDevBuild = FALSE
    /\ redirectResult = "unchecked"

InitB64Idle ==
    /\ b64Input = << >>
    /\ b64Text = << >>
    /\ b64Output = << >>
    /\ b64Stage = "input"

Init ==
    /\ InitStorage
    /\ InitReg
    /\ InitCall
    /\ InitRedirectIdle
    /\ InitB64Idle

NextStorage ==
    \E t \in Tokens \cup {NoToken} : SetToken(t)

\* registerPasskey is invoked for one of the invocations in C
RegStart(C) ==
    \E c \in C, n \in Names : RegisterPasskey(c, n)

\* the later steps of the registerPasskey invocations in C
RegSteps(C) ==
    \/ \E c \in C, e \in FetchErrors : BeginFails(c, e)
    \/ \E c \in C, o \in WireOptions :
          BeginSucceeds(c, o.challenge, o.userID)
    \/ \E c \in C : CreateCredential(c)
    \/ \E c \in C, o \in BrokerFailures \cup {BrokerNull} :
          BrokerFails(c, o)
    \/ \E c \in C, p \in BrokerPayloads :
          BrokerSucceeds(c, p.attestationObject, p.clientDataJSON)
    \/ \E c \in C : EncodeCredential(c)
    \/ \E c \in C : SubmitFinish(c)
    \/ \E c \in C, e \in TransportErrors : FinishFails(c, e)
    \/ \E c \in C : FinishSucceeds(c)
    \/ \E c \in C : Settle(c)

NextReg ==
    \/ RegStart(Cer)
    \/ RegSteps(Cer)

\* a management or authentication call is made
CallStart ==
    \/ getPasskeys
    \/ \E id \in PasskeyIDs, n \in Names : renamePasskey(id, n)
    \/ \E id \in PasskeyIDs : deletePasskey(id)
    \/ \E s \in SessionStrings : beginPasskeyAuthentication(s)
    \/ \E cred \in AuthCredentials, s \in SessionStrings,
          cs \in SessionStrings : finishPasskeyAuthentication(cred, s, cs)

\* the later steps of the call
CallSteps ==
    \/ \E cs \in SessionStrings : CallSucceeds(cs)
    \/ \E e \in TransportErrors : CallFails(e)
    \/ CallSettle

NextCall ==
    \/ CallStart
    \/ CallSteps

\* at most MaxOps invocations have been made
WithinMaxOps == attempts + callsMade <= MaxOps

\* registerPasskey is invoked while fewer than MaxOps invocations were made
RegStartWithinMaxOps ==
    /\ RegStart({1})
    /\ WithinMaxOps'

\* a call is made while fewer than MaxOps invocations were made
CallStartWithinMaxOps ==
    /\ CallStart
    /\ WithinMaxOps'

\* one registerPasskey invocation at a time, beside the management and
\* authentication calls
Next ==
    \/ NextStorage
    \/ RegStartWithinMaxOps
    \/ RegSteps({1})
    \/ CallStartWithinMaxOps
    \/ CallSteps

\* the whole module: a registration, management and authentication calls
Spec == Init /\ [][Next]_vars

\* the registration ceremonies and the stored token
SpecReg == Init /\ [][NextStorage \/ NextReg]_vars

\* the management and authentication calls and the stored token
SpecCall == Init /\ [][NextStorage \/ NextCall]_vars

InitRedirect ==
    /\ token = NoToken
    /\ clientPackage = NoPackage
    /\ InitReg
    /\ InitCall
    /\ InitB64Idle
    /\ redirectURL \in URLs
    /\ isDevBuild \in BOOLEAN
    /\ redirectResult = "unchecked"

NextRedirect ==
    \/ CheckRedirect
    \/ \E url \in URLs : NextRedirectURL(url)

SpecRedirect == InitRedirect /\ [][NextRedirect]_vars

InitB64 ==
    /\ token = NoToken
    /\ clientPackage = NoPackage
    /\ InitReg
    /\ InitCall
    /\ InitRedirectIdle
    /\ b64Input \in ByteSeqs
    /\ b64Text = << >>
    /\ b64Output = << >>
    /\ b64Stage = "input"

NextB64 ==
    \/ EncodeBytes
    \/ DecodeText

SpecB64 == InitB64 /\ [][NextB64]_vars

\* ------------------------------------------------------------------------
\* Properties
\* ------------------------------------------------------------------------

IsPrefix(s, t) == Len(s) <= Len(t) /\ SubSeq(t, 1, Len(s)) = s

Count(x, s) == Cardinality({i \in 1..Len(s) : s[i] = x})

NoDuplicates(s) == \A i, j \in 1..Len(s) : s[i] = s[j] => i = j

CeremonyOrder == << "begin", "broker", "finish" >>

\* the external calls made so far are the first steps of the ceremony, the
\* broker was called with fetched options and finish with a credential
OrderedSoFar ==
    \A c \in Cer :
        /\ IsPrefix(trace[c], CeremonyOrder)
        /\ Len(trace[c]) >= 2 =>
              /\ response[c].sessionID # 0
              /\ brokerCall[c] = << options[c] >>
        /\ Len(trace[c]) >= 3 =>
              /\ brokerOutcome[c] = BrokerCredential
              /\ credential[c].id # 0

\* a failed invocation makes no further external call
NothingAfterFailure ==
    \A c \in Cer :
        pc[c] = "Failed" =>
            /\ pc'[c] \in {"Failed", "Idle"}
            /\ trace'[c] = trace[c] \/ (pc'[c] = "Idle" /\ trace'[c] = << >>)

\* C1: a registration runs begin request, then broker call, then finish
\* request, each only after the one before it succeeded, and a run that
\* fails at one step performs none of the later steps
C1_RegistrationOrder == []OrderedSoFar /\ [][NothingAfterFailure]_vars

C1_Witness ==
    \E c \in Cer : pc[c] = "Done" /\ trace[c] = CeremonyOrder

\* C2: the one request finishPasskeyAuthentication sends carries the given
\* sessionID and ceremonySessionID, each in its own field and unchanged
C2_EchoesSessionPair ==
    callOp = "finishPasskeyAuthentication" =>
        /\ Len(callReq) = 1
        /\ callReq[1].params.sessionID = callArgs.sessionId
        /\ callReq[1].params.ceremonySessionID = callArgs.ceremonySessionId

C2_Witness ==
    /\ callOp = "finishPasskeyAuthentication"
    /\ callState = "pending"
    /\ callArgs.sessionId = "a&b=c/d?e"
    /\ callArgs.ceremonySessionId = "sess-1"

\* errors raised locally because no token is stored
LocalTokenErrors == {MissingTokenError, EnsureError}

RegistrationTokenStep ==
    \A c \in Cer :
        /\ (beginReq'[c] # beginReq[c] /\ beginReq'[c] # << >>) =>
              /\ token # NoToken
              /\ beginReq'[c][1].headers.XAuthToken = token
        /\ (finishReq'[c] # finishReq[c] /\ finishReq'[c] # << >>) =>
              /\ token # NoToken
              /\ finishReq'[c][1].headers.XAuthToken = token
        /\ (token = NoToken /\ pc[c] \in {"Idle", "Encoded"}
                /\ pc'[c] # pc[c]) =>
              /\ pc'[c] = "Failed"
              /\ err'[c] \in LocalTokenErrors
              /\ trace'[c] = trace[c]
              /\ beginReq'[c] = << >>
              /\ finishReq'[c] = << >>

ManagementOps == {"getPasskeys", "renamePasskey", "deletePasskey"}

ManagementCallWithoutToken ==
    (/\ token = NoToken
     /\ callState = "idle"
     /\ callState' # "idle"
     /\ callOp' \in ManagementOps) =>
        /\ callState' = "returned"
        /\ callResult'.defined = FALSE
        /\ callReq' = << >>
        /\ callErr' = NoError
        /\ log' = log
        /\ passkeys' = passkeys

\* C4: without a token, list, rename and delete send no request, throw and
\* log nothing, return undefined and leave the server's collection alone
C4_NoTokenNoOp == [][ManagementCallWithoutToken]_vars

C4_Witness ==
    /\ callOp = "deletePasskey"
    /\ callState = "returned"
    /\ callReq = << >>
    /\ ~callResult.defined
    /\ passkeys[callArgs.id] # Absent

\* C5: a broker failure of kind K reaches the caller of the ceremony as K
C5_BrokerFailurePropagates ==
    \A c \in Cer :
        brokerOutcome[c] \in BrokerFailures =>
            /\ pc[c] = "Failed"
            /\ err[c] = brokerOutcome[c]

C5_Witness ==
    \E c \in Cer :
        /\ brokerOutcome[c] = "UserCancelled"
        /\ err[c] = "UserCancelled"
        /\ trace[c] = << "begin", "broker" >>

AtMostOnceEach ==
    /\ \A c \in Cer :
          /\ \A k \in {"begin", "broker", "finish"} : Count(k, trace[c]) <= 1
          /\ Len(beginReq[c]) <= 1
          /\ Len(brokerCall[c]) <= 1
          /\ Len(finishReq[c]) <= 1
          /\ pc[c] \in {"Failed", "Done"} =>
                beginReq[c] = << >> /\ finishReq[c] = << >>
    /\ NoDuplicates(finishedSessions)

NoResend ==
    \A c \in Cer :
        /\ pc[c] = "Failed" =>
              /\ beginReq'[c] = << >>
              /\ finishReq'[c] = << >>
              /\ brokerCall'[c] \in {brokerCall[c], << >>}
        /\ (trace[c] = << >> /\ trace'[c] # << >>) =>
              trace'[c] = << "begin" >>

\* C6: an invocation sends at most one begin request, makes at most one
\* broker call and sends at most one finish request, no session identifier
\* is submitted twice, nothing follows a failure, and a new attempt starts
\* with a begin request
C6_NothingRetried == []AtMostOnceEach /\ [][NoResend]_vars

C6_Witness ==
    \E c \in Cer :
        /\ attempts >= 2
        /\ Len(finishedSessions) >= 1
        /\ pc[c] = "BeginPending"
        /\ trace[c] = << "begin" >>

\* C7: the finish request of each of two concurrent registrations carries
\* its own session identifier, credential and label, never the other's
C7_OwnValuesInFinish ==
    \A c \in Cer :
        pc[c] = "Submitted" =>
            /\ Len(finishReq[c]) = 1
            /\ LET req == finishReq[c][1]
               IN  /\ req.params.sessionID = response[c].sessionID
                   /\ req.params.friendlyName = name[c]
                   /\ req.body.id = credential[c].id
                   /\ req.body.rawId = credential[c].id
                   /\ req.body.response.attestationObject =
                         EncodeField(credential[c].attestationObject)
                   /\ req.body.response.clientDataJSON =
                         EncodeField(credential[c].clientDataJSON)
                   /\ \A d \in Cer \ {c} :
                         /\ response[d].sessionID # 0 =>
                               req.params.sessionID # response[d].sessionID
                         /\ credential[d].id # 0 =>
                               req.body.id # credential[d].id

C7_Witness ==
    /\ pc[1] = "Submitted"
    /\ pc[2] = "Submitted"
    /\ name[1] # name[2]
    /\ response[1].sessionID > response[2].sessionID
    /\ credential[1].id < credential[2].id

CallLogMessages ==
    { "rename passkey failed", "delete passkey failed",
      "begin passkey authentication failed",
      "finish passkey authentication failed" }

\* a call with a catch block that threw: the transport's failure was
\* logged, and is the error thrown
CaughtFailureLogged ==
    (callState = "threw" /\ HasCatchBlock(callOp)) =>
        /\ callErr = callFault
        /\ Len(log) >= 1
        /\ log[Len(log)] =
              [message |-> LogMessage(callOp), error |-> callFault]

\* C8 as stated: failures of registration begin and finish are logged too
C8_AllFailuresLogged ==
    /\ CaughtFailureLogged
    /\ \A c \in Cer :
          (pc[c] = "Failed" /\ err[c] \in FetchErrors \cup TransportErrors) =>
              \E i \in 1..Len(log) :
                  /\ log[i].error = err[c]
                  /\ log[i].message \notin CallLogMessages

\* C8, amended: failures of authentication begin and finish and of rename
\* and delete are logged and rethrown unchanged; failures of registration
\* begin and finish reach the caller but are not logged by this module
C8_CaughtFailuresLogged ==
    /\ CaughtFailureLogged
    /\ \A i \in 1..Len(log) : log[i].message \in CallLogMessages
    /\ \A c \in Cer : pc[c] = "Failed" <=> err[c] # NoError

C8_Witness ==
    /\ callState = "threw"
    /\ callOp = "renamePasskey"
    /\ callErr = "ServerError"
    /\ pc[1] = "Failed"
    /\ err[1] = "NetworkError"
    /\ trace[1] = CeremonyOrder

\* the allow-list rule read with one meaning of "host", the name without
\* the port, for the loopback and the production domains alike
AllowedByRule(url, dev) ==
    \/ (dev /\ EndsWith(url.hostname, StrLocalhost))
    \/ EndsWith(url.hostname, StrDotEnteIo)
    \/ EndsWith(url.hostname, StrDotEnteSh)
    \/ url.protocol \in {"ente:", "enteauth:"}

\* C9: a URL is allowed if and only if it is a loopback host in a
\* development build, a host under a production domain, or a custom scheme
C9_AllowedIffRule ==
    redirectResult # "unchecked" =>
        (redirectResult = "allowed"
            <=> AllowedByRule(redirectURL, isDevBuild))

\* C10: decoding the encoding of a byte sequence gives the byte sequence
C10_RoundTrip ==
    b64Stage = "decoded" => b64Output = b64Input

C10_Witness ==
    /\ b64Stage = "decoded"
    /\ b64Input = << 255, 0 >>
    /\ Len(b64Text) = 3
    /\ b64Output = << 255, 0 >>

====
